---- MODULE Spec2Model ----
(***************************************************************************)
(* Model of src/linux/main.py: the GPU metric collector.                   *)
(*                                                                         *)
(* Text (the tool's output lines, the metadata responses) is a sequence of *)
(* symbols: a symbol is a one-character string (a digit, ",", "/", " ") or *)
(* an opaque word (a device name, a bus id, "[N/A]").  split, strip and    *)
(* float are computed on those sequences as Python computes them on        *)
(* strings.  Metric values are non-negative integers, which is what        *)
(* nvidia-smi prints for the six catalog keys with the nounits format.     *)
(***************************************************************************)
EXTENDS Integers, Sequences, FiniteSets

\* ---------------------------------------------------------------- bounds
MaxCycles == 2
MaxLines == 2
MaxCards == 1

\* ------------------------------------------------------ program constants
FREQUENCY == 10

MEM_USED_PERCENT == "instance/gpu/memory_used_percent"

\* METRICS.items() in the dictionary's (insertion) order
METRICS == << <<"utilization.gpu", "instance/gpu/utilization">>,
              <<"utilization.memory", "instance/gpu/memory_utilization">>,
              <<"memory.total", "instance/gpu/memory_total">>,
              <<"memory.used", "instance/gpu/memory_used">>,
              <<"memory.free", "instance/gpu/memory_free">>,
              <<"temperature.gpu", "instance/gpu/temperature">> >>

\* sorted(METRICS.keys())
SortedKeys == <<"memory.free", "memory.total", "memory.used",
                "temperature.gpu", "utilization.gpu", "utilization.memory">>

\* itertools.chain(METRICS.items(), (('', MEM_USED_PERCENT),))
ChainItems == Append(METRICS, <<"", MEM_USED_PERCENT>>)

\* ------------------------------------------------------------ text helpers
Min(a, b) == IF a < b THEN a ELSE b

DigitChars == {"0", "1", "2", "3", "4", "5", "6", "7", "8", "9"}

DigitVal(c) ==
    CASE c = "0" -> 0 [] c = "1" -> 1 [] c = "2" -> 2 [] c = "3" -> 3
      [] c = "4" -> 4 [] c = "5" -> 5 [] c = "6" -> 6 [] c = "7" -> 7
      [] c = "8" -> 8 [] c = "9" -> 9

RECURSIVE SplitFrom(_, _, _, _, _)
SplitFrom(s, sep, i, cur, acc) ==
    IF i > Len(s) THEN Append(acc, cur)
    ELSE IF s[i] = sep THEN SplitFrom(s, sep, i + 1, <<>>, Append(acc, cur))
    ELSE SplitFrom(s, sep, i + 1, Append(cur, s[i]), acc)

\* str.split(sep)
Split(s, sep) == SplitFrom(s, sep, 1, <<>>, <<>>)

RECURSIVE Strip(_)
\* str.strip(), which float() applies to its argument
Strip(s) ==
    IF s = <<>> THEN s
    ELSE IF Head(s) = " " THEN Strip(Tail(s))
    ELSE IF s[Len(s)] = " " THEN Strip(SubSeq(s, 1, Len(s) - 1))
    ELSE s

RECURSIVE Num(_)
Num(t) == IF t = <<>> THEN 0
          ELSE 10 * Num(SubSeq(t, 1, Len(t) - 1)) + DigitVal(t[Len(t)])

\* float(field): the value, or ValueError (ok = FALSE)
Float(f) ==
    LET t == Strip(f) IN
    IF t = <<>> \/ \E i \in 1..Len(t) : t[i] \notin DigitChars
    THEN [ok |-> FALSE, val |-> 0]
    ELSE [ok |-> TRUE, val |-> Num(t)]

\* int() instead of round()
RoundDown(a, b) == a \div b

\* round(a / b): the nearest integer, the even one at a tie
Round(a, b) ==
    LET q == a \div b
        r == a % b
    IN  IF 2 * r < b THEN q
        ELSE IF 2 * r > b THEN q + 1
        ELSE IF q % 2 = 0 THEN q ELSE q + 1

\* ------------------------------------------------------------------ inputs
\* What the environment can hand the program: the tool's output lines, the
\* metadata server's answers, the backend's verdict.
RECURSIVE ToText(_)
ToText(n) ==
    LET d == CHOOSE c \in DigitChars : DigitVal(c) = n % 10
    IN  IF n < 10 THEN <<d>> ELSE Append(ToText(n \div 10), d)

RECURSIVE JoinCsv(_)
\* nvidia-smi's csv format separates the columns with a comma and a space
JoinCsv(fields) ==
    IF Len(fields) = 1 THEN fields[1]
    ELSE JoinCsv(SubSeq(fields, 1, Len(fields) - 1)) \o <<",", " ">>
             \o fields[Len(fields)]

GpuName == <<"A100">>
FirstBus == <<"0000:00:04.0">>
SecondBus == <<"0000:00:05.0">>

\* value rows in the order of the query: memory.free, memory.total,
\* memory.used, temperature.gpu, utilization.gpu, utilization.memory
ExampleRow == <<30720, 40960, 10240, 60, 55, 30>>
ZeroTotalRow == <<0, 0, 0, 40, 0, 0>>
TieUpRow == <<5, 8, 3, 41, 7, 2>>
TieDownRow == <<7, 8, 1, 42, 9, 3>>
Rows == {ExampleRow, ZeroTotalRow, TieUpRow, TieDownRow}

RowText(r) == [i \in 1..Len(r) |-> ToText(r[i])]

Line(bus, cols) == JoinCsv(<<GpuName, bus>> \o cols)

\* two lines of the first device (the later one replaces the earlier in
\* the dict) and two of the second
WellFormedLines ==
    {Line(FirstBus, RowText(ExampleRow)), Line(FirstBus, RowText(TieDownRow)),
     Line(SecondBus, RowText(TieUpRow)), Line(SecondBus, RowText(ZeroTotalRow))}

NonNumericLine == Line(FirstBus, [RowText(ExampleRow) EXCEPT ![3] = <<"[N/A]">>])
ShortLine == Line(FirstBus, SubSeq(RowText(ExampleRow), 1, 5))
LongLine == Line(SecondBus, Append(RowText(TieUpRow), <<"9", "9">>))
ErrorTextLine == <<"NVIDIA-SMI has failed">>
MalformedLines == {NonNumericLine, ShortLine, LongLine, ErrorTextLine}

ProbeLines == WellFormedLines \cup MalformedLines

SeqsUpTo(S, n) == UNION {[1..k -> S] : k \in 0..n}

\* what subprocess.run can do in get_metrics: return a CompletedProcess,
\* raise FileNotFoundError, or never return
ProbeOutcomes ==
    {[kind |-> "completed", returncode |-> rc, stdout |-> out] :
        rc \in {0, 1}, out \in SeqsUpTo(ProbeLines, MaxLines)}
    \cup {[kind |-> k, returncode |-> 0, stdout |-> <<>>] :
        k \in {"FileNotFoundError", "hang"}}

\* what subprocess.run can do in check_nvidia_smi
CheckOutcomes ==
    {[kind |-> "completed", cards |-> n] : n \in 0..MaxCards}
    \cup {[kind |-> k, cards |-> 0] : k \in {"FileNotFoundError", "CalledProcessError"}}

GoodZone == <<"projects", "/", "123", "/", "zones", "/", "europe-west3-c">>
ShortZone == <<"projects", "/", "123">>
\* the two requests.get calls: each raises ConnectionError or returns a text
MetadataOutcomes ==
    {[zoneErr |-> ze, data |-> d, idErr |-> ie, id |-> <<"4242">>] :
        ze \in BOOLEAN, d \in {GoodZone, ShortZone}, ie \in BOOLEAN}

BackendOutcomes == {"ok", "error"}

\* what time.time() can return, in milliseconds
NowValues == {10250, 20500}

\* ------------------------------------------------------------------- state
VARIABLES
    pc,          \* where main() is: "check", "params", "probe", "report",
                 \* "sleep", "blocked" (inside subprocess.run), "exited"
    cycle,       \* number of the loop iteration in progress (0 before the loop)
    exitCode,    \* the process's exit status, once pc = "exited"
    exc,         \* what ended the process: "SystemExit" or the uncaught exception
    stderr,      \* lines written to standard error, each <<cycle, text>>
    nChecks,     \* how many times check_nvidia_smi has run
    identity,    \* (project_id, zone, instance_id) of main(); <<>> until assigned
    process,     \* get_metrics' CompletedProcess of this cycle
    metrics,     \* main's metrics: the dict get_metrics returned, in insertion
                 \* order, each item [key |-> tuple, val |-> dict]
    calls,       \* create_time_series calls made in this cycle
    series,      \* the time_series argument of this cycle's call
    submitResult, \* how this cycle's create_time_series call ended: "ok", "error"
    listing,     \* what `nvidia-smi -L` did when check_nvidia_smi ran it
    exitedAt,    \* the pc at which the process ended
    prev         \* history: what the cycle before this one read, held and
                 \* submitted (recorded under HistorySpec only)

vars == <<pc, cycle, exitCode, exc, stderr, nChecks, identity, process,
          metrics, calls, series, submitResult, listing, exitedAt, prev>>

NoProcess == [returncode |-> 0, stdout |-> <<>>]

NoPrev == [cycle |-> 0, stdout |-> <<>>, metrics |-> <<>>, series |-> <<>>]

Init ==
    /\ pc = "check"
    /\ cycle = 0
    /\ exitCode = 0
    /\ exc = ""
    /\ stderr = <<>>
    /\ nChecks = 0
    /\ identity = <<>>
    /\ process = NoProcess
    /\ metrics = <<>>
    /\ calls = 0
    /\ series = <<>>
    /\ submitResult = ""
    /\ listing = [kind |-> "", cards |-> 0]
    /\ exitedAt = ""
    /\ prev = NoPrev

\* print(..., file=sys.stderr)
PrintStderr(lines) == stderr' = stderr \o [i \in 1..Len(lines) |-> <<cycle, lines[i]>>]

\* sys.exit(code)
Exit(code) ==
    /\ pc' = "exited"
    /\ exitCode' = code
    /\ exc' = "SystemExit"
    /\ exitedAt' = pc

\* An exception nothing catches: the interpreter prints the traceback to
\* standard error and the process ends with status 1.
Uncaught(e) ==
    /\ pc' = "exited"
    /\ exitCode' = 1
    /\ exc' = e
    /\ exitedAt' = pc
    /\ PrintStderr(<<"Traceback">>)

\* ------------------------------------------------------ check_nvidia_smi
\* check_nvidia_smi without the len(cards) == 0 test
check_nvidia_smi_no_cards_test(o) ==
    IF o.kind = "FileNotFoundError"
    THEN [ret |-> FALSE, out |-> <<"Couldn't find the nvidia-smi tool">>]
    ELSE IF o.kind = "CalledProcessError"
    THEN [ret |-> FALSE,
          out |-> <<"The nvidia-smi tool has encountered an error", "err.stderr">>]
    ELSE [ret |-> TRUE, out |-> <<>>]

check_nvidia_smi(o) ==
    IF o.kind = "FileNotFoundError"
    THEN [ret |-> FALSE, out |-> <<"Couldn't find the nvidia-smi tool">>]
    ELSE IF o.kind = "CalledProcessError"
    THEN [ret |-> FALSE,
          out |-> <<"The nvidia-smi tool has encountered an error", "err.stderr">>]
    ELSE IF o.cards = 0
    THEN [ret |-> FALSE, out |-> <<"The nvidia-smi tool didn't detect any GPUs">>]
    ELSE [ret |-> TRUE, out |-> <<>>]

\* sys.exit(1) after a failed check, sys.exit(2) after a ConnectionError
CheckFailedExit == 1
\* the same status for both
ConnectionErrorExitSame == CheckFailedExit
ConnectionErrorExit == 2

MainCheck(o) ==
    /\ pc = "check"
    /\ nChecks' = nChecks + 1
    /\ LET r == check_nvidia_smi(o) IN
        /\ PrintStderr(r.out)
        /\ IF r.ret
           THEN pc' = "params" /\ UNCHANGED <<exitCode, exc, exitedAt>>
           ELSE Exit(CheckFailedExit)
    /\ listing' = o
    /\ UNCHANGED <<cycle, identity, process, metrics, calls, series, submitResult>>

\* --------------------------------------------------- get_instance_params
\* project_id and zone taken from each other's segment
get_instance_params_swapped(r) ==
    LET parts == Split(r.data, "/") IN
    IF r.zoneErr THEN [exc |-> "ConnectionError", val |-> <<>>]
    ELSE IF Len(parts) < 4 THEN [exc |-> "IndexError", val |-> <<>>]
    ELSE IF r.idErr THEN [exc |-> "ConnectionError", val |-> <<>>]
    ELSE [exc |-> "", val |-> <<parts[4], parts[2], r.id>>]

get_instance_params(r) ==
    LET parts == Split(r.data, "/") IN
    IF r.zoneErr THEN [exc |-> "ConnectionError", val |-> <<>>]
    ELSE IF Len(parts) < 4 THEN [exc |-> "IndexError", val |-> <<>>]
    ELSE IF r.idErr THEN [exc |-> "ConnectionError", val |-> <<>>]
    ELSE [exc |-> "", val |-> <<parts[2], parts[4], r.id>>]

MainGetParams(r) ==
    /\ pc = "params"
    /\ LET p == get_instance_params(r) IN
        IF p.exc = "ConnectionError"
        THEN /\ PrintStderr(<<"Couldn't connect with the metadata server",
                        "Encountered error">>)
             /\ Exit(ConnectionErrorExit)
             /\ UNCHANGED <<cycle, identity>>
        ELSE IF p.exc # ""
        THEN Uncaught(p.exc) /\ UNCHANGED <<cycle, identity>>
        ELSE /\ identity' = p.val
             /\ pc' = "probe"
             /\ cycle' = 1
             /\ UNCHANGED <<exitCode, exc, stderr, exitedAt>>
    /\ UNCHANGED <<nChecks, process, metrics, calls, series, submitResult, listing>>

\* ------------------------------------------------------------- main's loop
\* a loop body that goes back to get_metrics without sleeping
LoopOrderNoSleep(at) ==
    IF at = "probe" THEN "report" ELSE "probe"

\* the statement main() runs after the one at pc: get_metrics, then
\* report_metrics, then time.sleep, then get_metrics again
LoopOrder(at) ==
    IF at = "probe" THEN "report"
    ELSE IF at = "report" THEN "sleep"
    ELSE "probe"

\* ------------------------------------------------------------ get_metrics
\* a list of (key, val) pairs instead of a dict
DictSetAppend(data, key, val) == Append(data, [key |-> key, val |-> val])

\* data[key] = val on a dict kept in insertion order
DictSet(data, key, val) ==
    IF \E i \in 1..Len(data) : data[i].key = key
    THEN [i \in 1..Len(data) |->
            IF data[i].key = key THEN [key |-> key, val |-> val] ELSE data[i]]
    ELSE Append(data, [key |-> key, val |-> val])

\* {k: v for k, v in zip(sorted(METRICS.keys()), map(float, cols))}: zip
\* stops at the shorter of the two, so float is applied to the first
\* min(6, len(cols)) columns only; ok = FALSE when one of them raises
ZipFloat(cols) ==
    LET n == Min(Len(SortedKeys), Len(cols))
        parsed == [i \in 1..n |-> Float(cols[i])]
    IN  [ok |-> \A i \in 1..n : parsed[i].ok,
         val |-> [k \in {SortedKeys[i] : i \in 1..n} |->
                    parsed[CHOOSE i \in 1..n : SortedKeys[i] = k].val]]

RECURSIVE ParseLines(_, _)
\* the for loop over process.stdout.decode().splitlines()
ParseLines(lines, data) ==
    IF lines = <<>> THEN [exc |-> "", data |-> data]
    ELSE LET line == Split(Head(lines), ",")
             key == SubSeq(line, 1, Min(2, Len(line)))
             z == ZipFloat(SubSeq(line, 3, Len(line)))
         IN  IF ~z.ok THEN [exc |-> "ValueError", data |-> <<>>]
             ELSE ParseLines(Tail(lines), DictSet(data, key, z.val))

\* subprocess.run(..., check=True): a non-zero exit status raises
get_metrics_checked(p) ==
    IF p.kind = "FileNotFoundError" THEN [exc |-> "FileNotFoundError", data |-> <<>>]
    ELSE IF p.returncode # 0 THEN [exc |-> "CalledProcessError", data |-> <<>>]
    ELSE ParseLines(p.stdout, <<>>)

\* get_metrics with data kept from one call to the next (a module-level
\* dict) instead of data = defaultdict(dict) in the function
get_metrics_stale(p) ==
    IF p.kind = "FileNotFoundError" THEN [exc |-> "FileNotFoundError", data |-> <<>>]
    ELSE ParseLines(p.stdout, prev.metrics)

\* get_metrics() on what subprocess.run did; the return code and the
\* tool's stderr are not read
get_metrics(p) ==
    IF p.kind = "FileNotFoundError" THEN [exc |-> "FileNotFoundError", data |-> <<>>]
    ELSE ParseLines(p.stdout, <<>>)

MainGetMetrics(p) ==
    /\ pc = "probe"
    /\ IF p.kind = "hang"
       THEN \* subprocess.run is called without a timeout
            /\ pc' = "blocked"
            /\ UNCHANGED <<exitCode, exc, stderr, process, metrics, exitedAt>>
       ELSE LET r == get_metrics(p) IN
            IF r.exc # ""
            THEN /\ Uncaught(r.exc)
                 /\ process' = [returncode |-> p.returncode, stdout |-> p.stdout]
                 /\ UNCHANGED metrics
            ELSE /\ metrics' = r.data
                 /\ process' = [returncode |-> p.returncode, stdout |-> p.stdout]
                 /\ pc' = LoopOrder(pc)
                 /\ UNCHANGED <<exitCode, exc, stderr, exitedAt>>
    /\ UNCHANGED <<cycle, nChecks, identity, calls, series, submitResult, listing>>

\* --------------------------------------------------------- report_metrics
\* the value of one series' point, or the exception its computation raises
PointValue(m, smi_metric, gcp_metric) ==
    IF gcp_metric = MEM_USED_PERCENT
    THEN IF "memory.used" \notin DOMAIN m \/ "memory.total" \notin DOMAIN m
         THEN [exc |-> "KeyError", val |-> 0]
         ELSE IF m["memory.total"] = 0
         THEN [exc |-> "ZeroDivisionError", val |-> 0]
         ELSE [exc |-> "", val |-> Round(m["memory.used"] * 100, m["memory.total"])]
    ELSE IF smi_metric \notin DOMAIN m
         THEN [exc |-> "KeyError", val |-> 0]
         ELSE [exc |-> "", val |-> m[smi_metric]]

\* time_series: the template built once per call from the host identity
\* and from now = time.time(), split into seconds and nanoseconds
TimeSeries(id, now) ==
    [resource |-> [type |-> "gce_instance", instance_id |-> id[3],
                   zone |-> id[2], project_id |-> id[1]],
     interval |-> [seconds |-> now \div 1000,
                   nanos |-> (now % 1000) * 1000000]]

\* new_series: the deep copy of the template with its value, type and labels
NewSeries(time_series, key, gcp_metric, value) ==
    [resource |-> time_series.resource,
     interval |-> time_series.interval,
     metric_type |-> <<"custom.googleapis.com/", gcp_metric>>,
     gpu_type |-> key[1],
     gpu_bus_id |-> key[2],
     value |-> value]

RECURSIVE BuildSeries(_, _, _, _, _)
\* the two nested for loops: device i of values, item j of the chain
BuildSeries(values, time_series, i, j, acc) ==
    IF i > Len(values) THEN [exc |-> "", series |-> acc]
    ELSE IF Len(values[i].key) # 2
    THEN \* (gpu_type, gpu_bus_id) cannot be unpacked
         [exc |-> "ValueError", series |-> acc]
    ELSE IF j > Len(ChainItems) THEN BuildSeries(values, time_series, i + 1, 1, acc)
    ELSE LET v == PointValue(values[i].val, ChainItems[j][1], ChainItems[j][2])
         IN  IF v.exc # "" THEN [exc |-> v.exc, series |-> acc]
             ELSE BuildSeries(values, time_series, i, j + 1,
                     Append(acc, NewSeries(time_series, values[i].key,
                                           ChainItems[j][2], v.val)))

\* an except clause that passes
SubmitLogSilent(b) == <<>>

\* what the try block around create_time_series does with the call's outcome
SubmitLog(b) ==
    IF b = "error" THEN <<"Encountered an error:", "err">> ELSE <<>>

MainReportMetrics(b, now) ==
    /\ pc = "report"
    /\ LET r == BuildSeries(metrics, TimeSeries(identity, now), 1, 1, <<>>) IN
        IF r.exc # ""
        THEN Uncaught(r.exc) /\ UNCHANGED <<calls, series, submitResult>>
        ELSE /\ calls' = calls + 1
             /\ series' = r.series
             /\ submitResult' = b
             /\ PrintStderr(SubmitLog(b))
             /\ pc' = LoopOrder(pc)
             /\ UNCHANGED <<exitCode, exc, exitedAt>>
    /\ UNCHANGED <<cycle, nChecks, identity, process, metrics, listing>>

\* time.sleep(FREQUENCY), then the next iteration.  The values of the
\* iteration that ended are dead (metrics is reassigned before it is read
\* again) and are cleared here.
MainSleep ==
    /\ pc = "sleep"
    /\ cycle < MaxCycles
    /\ pc' = LoopOrder(pc)
    /\ cycle' = cycle + 1
    /\ process' = NoProcess
    /\ metrics' = <<>>
    /\ calls' = 0
    /\ series' = <<>>
    /\ submitResult' = ""
    /\ UNCHANGED <<exitCode, exc, stderr, nChecks, identity, listing, exitedAt>>

Next ==
    \/ (\E o \in CheckOutcomes : MainCheck(o)) /\ UNCHANGED prev
    \/ (\E r \in MetadataOutcomes : MainGetParams(r)) /\ UNCHANGED prev
    \/ (\E p \in ProbeOutcomes : MainGetMetrics(p)) /\ UNCHANGED prev
    \/ (\E b \in BackendOutcomes, now \in NowValues : MainReportMetrics(b, now))
          /\ UNCHANGED prev
    \/ MainSleep /\ UNCHANGED prev

Spec == Init /\ [][Next]_vars

\* ------------------------------------------------- the loop with its history
\* The same program, with the cycle that ends recorded in prev when the
\* next one starts, on probe outputs of well-formed lines.
HistoryLines ==
    {Line(FirstBus, RowText(ExampleRow)), Line(FirstBus, RowText(TieDownRow)),
     Line(SecondBus, RowText(TieUpRow))}

HistoryProbeOutcomes ==
    {[kind |-> "completed", returncode |-> 0, stdout |-> out] :
        out \in SeqsUpTo(HistoryLines, MaxLines)}

\* a submission without its timestamps
WithoutTime(ss) ==
    [j \in 1..Len(ss) |->
        [resource |-> ss[j].resource, metric_type |-> ss[j].metric_type,
         gpu_type |-> ss[j].gpu_type, gpu_bus_id |-> ss[j].gpu_bus_id,
         value |-> ss[j].value]]

Remember ==
    prev' = [cycle |-> cycle, stdout |-> process.stdout, metrics |-> metrics,
             series |-> WithoutTime(series)]

HistoryNext ==
    \/ (\E o \in CheckOutcomes : MainCheck(o)) /\ UNCHANGED prev
    \/ (\E r \in MetadataOutcomes : MainGetParams(r)) /\ UNCHANGED prev
    \/ (\E p \in HistoryProbeOutcomes : MainGetMetrics(p)) /\ UNCHANGED prev
    \/ (\E b \in BackendOutcomes, now \in NowValues : MainReportMetrics(b, now))
          /\ UNCHANGED prev
    \/ MainSleep /\ Remember

HistorySpec == Init /\ [][HistoryNext]_vars

\* main() is one thread that takes its next step whenever it has one
FairSpec == Spec /\ WF_vars(Next)

\* ================================================================= claims
LoopEntered == cycle >= 1

\* C1: once the loop has been entered, no failure of a cycle's probe, point
\* building or submission ends the process, so the next cycle can start.
C1_FailureNeverHaltsLoop == LoopEntered => pc # "exited"

SubmitFailureLogged ==
    \E i \in 1..Len(stderr) : stderr[i] = <<cycle, "Encountered an error:">>

\* C2: a failed create_time_series call is logged, leaves the process
\* running with exactly one call made in that cycle, and is followed by the
\* next cycle, which starts from its own probe with nothing of the failed
\* cycle left to submit.
C2_SubmitFailureIsolated ==
    /\ [](submitResult = "error" =>
            pc = "sleep" /\ calls = 1 /\ SubmitFailureLogged)
    /\ [](submitResult = "error" /\ cycle < MaxCycles => ENABLED MainSleep)
    /\ [][submitResult = "error" =>
            pc' = "probe" /\ cycle' = cycle + 1 /\ calls' = 0
            /\ process' = NoProcess /\ metrics' = <<>>]_vars

C2_Witness ==
    /\ cycle = 2
    /\ pc = "sleep"
    /\ calls = 1
    /\ \E i \in 1..Len(stderr) : stderr[i] = <<1, "Encountered an error:">>

StartupFailureKinds ==
    {"ToolMissing", "ToolError", "NoDevices", "MetadataConnectivity"}

\* the kind of fatal startup failure that ended the process, "" if none did
FailureKind ==
    IF pc # "exited" \/ exc # "SystemExit" THEN ""
    ELSE IF exitedAt = "params" THEN "MetadataConnectivity"
    ELSE IF listing.kind = "FileNotFoundError" THEN "ToolMissing"
    ELSE IF listing.kind = "CalledProcessError" THEN "ToolError"
    ELSE "NoDevices"

ExitCodeOf(kind) ==
    IF kind = "MetadataConnectivity" THEN ConnectionErrorExit ELSE CheckFailedExit

\* C3: the exit code of a fatal startup failure is non-zero and is the exit
\* code of no other kind of startup failure.
C3_DistinctExitCodes ==
    FailureKind # "" =>
        /\ exitCode # 0
        /\ \A k \in StartupFailureKinds \ {FailureKind} : ExitCodeOf(k) # exitCode

ToolCheckSucceeded == listing.kind = "completed" /\ listing.cards > 0

\* C4: check_nvidia_smi runs at most once; a listing of zero devices ends
\* the process before the loop; and no get_metrics or report_metrics step
\* is taken unless the check ran once and succeeded and main holds the
\* host identity.
C4_StartupGatesLoop ==
    /\ [](nChecks <= 1)
    /\ [](listing.kind = "completed" /\ listing.cards = 0 =>
            pc = "exited" /\ exitedAt = "check" /\ cycle = 0)
    /\ [][(pc \in {"probe", "report"} /\ pc' # pc) =>
            nChecks = 1 /\ ToolCheckSucceeded /\ Len(identity) = 3]_vars

C4_Witness == pc = "sleep" /\ calls = 1 /\ nChecks = 1 /\ ToolCheckSucceeded

\* ------------------------------------------------- the cycle, as observed
Fields(line) == Split(line, ",")

LineKey(line) == SubSeq(Fields(line), 1, Min(2, Len(Fields(line))))

\* a line with the two identity columns and one numeric column per key
WellFormedLine(line) ==
    /\ Len(Fields(line)) = 2 + Len(SortedKeys)
    /\ \A k \in 3..Len(Fields(line)) : Float(Fields(line)[k]).ok

HasEntry(key) == \E i \in 1..Len(metrics) : metrics[i].key = key

\* get_metrics got the tool's output in this cycle and has ended
ProbeRan ==
    /\ LoopEntered
    /\ \/ pc \in {"report", "sleep"}
       \/ pc = "exited" /\ exitedAt \in {"probe", "report"}

\* report_metrics has ended in this cycle
ReportRan ==
    /\ LoopEntered
    /\ \/ pc = "sleep"
       \/ pc = "exited" /\ exitedAt = "report"

FullCatalog(e) ==
    /\ Len(e.key) = 2
    /\ DOMAIN e.val = {SortedKeys[k] : k \in 1..Len(SortedKeys)}

AllFullCatalog == \A i \in 1..Len(metrics) : FullCatalog(metrics[i])

\* the submitted series of device e with published metric name gcp
PointsOf(e, gcp) ==
    {j \in 1..Len(series) :
        /\ series[j].gpu_type = e.key[1]
        /\ series[j].gpu_bus_id = e.key[2]
        /\ series[j].metric_type = <<"custom.googleapis.com/", gcp>>}

\* exactly one series per catalog key for e, with the sampled value
NonDerivedSubmitted(e) ==
    \A c \in 1..Len(METRICS) :
        /\ Cardinality(PointsOf(e, METRICS[c][2])) = 1
        /\ \A j \in PointsOf(e, METRICS[c][2]) : series[j].value = e.val[METRICS[c][1]]

\* C5: after the probe, every well-formed line of the output has its entry
\* in the SampleSet and a malformed line has none (unless a well-formed line
\* names the same device).
C5_MalformedLinesSkipped ==
    ProbeRan =>
        \A i \in 1..Len(process.stdout) :
            LET l == process.stdout[i] IN
            IF WellFormedLine(l) THEN HasEntry(LineKey(l))
            ELSE HasEntry(LineKey(l)) =>
                    \E j \in 1..Len(process.stdout) :
                        /\ WellFormedLine(process.stdout[j])
                        /\ LineKey(process.stdout[j]) = LineKey(l)

\* C6: when a device's memory.total is 0, the cycle still makes its
\* submission, without that device's derived series and with every other
\* series of every device.
C6_ZeroTotalOmitsDerived ==
    (/\ ReportRan
     /\ AllFullCatalog
     /\ \E i \in 1..Len(metrics) : metrics[i].val["memory.total"] = 0)
    =>  /\ pc = "sleep"
        /\ calls = 1
        /\ \A i \in 1..Len(metrics) :
            /\ NonDerivedSubmitted(metrics[i])
            /\ Cardinality(PointsOf(metrics[i], MEM_USED_PERCENT)) =
                 IF metrics[i].val["memory.total"] = 0 THEN 0 ELSE 1

\* C7: a probe that is waiting for the tool is not stuck: the process always
\* has a step that ends the wait.
C7_ProbeBounded == pc = "blocked" => ENABLED Next

\* something went wrong in this cycle
CycleError ==
    \/ process.returncode # 0
    \/ \E i \in 1..Len(process.stdout) : ~WellFormedLine(process.stdout[i])
    \/ \E i \in 1..Len(metrics) :
          FullCatalog(metrics[i]) /\ metrics[i].val["memory.total"] = 0
    \/ submitResult = "error"

CycleEnded ==
    /\ LoopEntered
    /\ \/ pc = "sleep"
       \/ pc = "exited" /\ exitedAt \in {"probe", "report"}

\* C8: a cycle in which something went wrong has written to standard error
\* by the time it ends.
C8_ErrorsAreLogged ==
    CycleEnded /\ CycleError => \E i \in 1..Len(stderr) : stderr[i][1] = cycle

OneCallWithAllSeries ==
    /\ calls = 1
    /\ Len(series) = Len(metrics) * (Len(METRICS) + 1)
    /\ \A i \in 1..Len(metrics) :
        /\ \A c \in 1..Len(METRICS) :
              Cardinality(PointsOf(metrics[i], METRICS[c][2])) = 1
        /\ Cardinality(PointsOf(metrics[i], MEM_USED_PERCENT)) = 1

\* C9: for N devices that carry the full catalog, report_metrics
\* makes one call with N * (|catalog| + 1) series, one per device and
\* published metric name, the derived one included.
C9_OneCallAllPoints == ReportRan /\ AllFullCatalog => OneCallWithAllSeries

Abs(x) == IF x < 0 THEN 0 - x ELSE x

\* v is the integer nearest to a / b, the even one when two are nearest
NearestHalfEven(v, a, b) ==
    /\ 2 * Abs(v * b - a) <= b
    /\ 2 * Abs(v * b - a) = b => v % 2 = 0

\* the last output line of the device with this key
LastLineOf(key) ==
    process.stdout[CHOOSE i \in 1..Len(process.stdout) :
                     /\ LineKey(process.stdout[i]) = key
                     /\ \A j \in (i + 1)..Len(process.stdout) :
                           LineKey(process.stdout[j]) # key]

\* C10: in a submission, a device's derived series has the value
\* round(memory.used / memory.total * 100) and each other series has the
\* value the tool printed in the column of its catalog key; used = 10240,
\* total = 40960, utilization.gpu = 55 are published as 25 and 55.
C10_PublishedValues ==
    pc = "sleep" =>
        \A i \in 1..Len(metrics) :
            LET e == metrics[i] IN
            /\ e.val["memory.total"] # 0
            /\ \A j \in PointsOf(e, MEM_USED_PERCENT) :
                 NearestHalfEven(series[j].value, e.val["memory.used"] * 100,
                                 e.val["memory.total"])
            /\ \A k \in 1..Len(SortedKeys) :
                 \A c \in 1..Len(METRICS) :
                    METRICS[c][1] = SortedKeys[k] =>
                      \E j \in PointsOf(e, METRICS[c][2]) :
                        ToText(series[j].value) = Strip(Fields(LastLineOf(e.key))[k + 2])
            /\ (e.val["memory.used"] = 10240 /\ e.val["memory.total"] = 40960
                  /\ e.val["utilization.gpu"] = 55) =>
                 /\ \E j \in PointsOf(e, MEM_USED_PERCENT) : series[j].value = 25
                 /\ \E j \in PointsOf(e, "instance/gpu/utilization") :
                       series[j].value = 55

C10_Witness ==
    /\ pc = "sleep"
    /\ \E j \in 1..Len(series) :
          series[j].metric_type = <<"custom.googleapis.com/", MEM_USED_PERCENT>>
          /\ series[j].value = 25
    /\ \E j \in 1..Len(series) :
          series[j].metric_type = <<"custom.googleapis.com/", MEM_USED_PERCENT>>
          /\ series[j].value = 38

\* C11: the identity main holds never changes once assigned, every series
\* of a submission carries the project, zone and instance id the metadata
\* server answered at startup, and all series of one submission carry the
\* same timestamp.
C11_IdentityAndTimestamp ==
    /\ [](\A j \in 1..Len(series) :
            /\ series[j].resource =
                 [type |-> "gce_instance", project_id |-> <<"123">>,
                  zone |-> <<"europe-west3-c">>, instance_id |-> <<"4242">>]
            /\ \A k \in 1..Len(series) : series[k].interval = series[j].interval)
    /\ [][identity # <<>> => identity' = identity]_vars

C11_Witness == cycle = 2 /\ pc = "sleep" /\ Len(series) > Len(ChainItems)

\* C12: cycles run one after the other.  The cycle number only grows by
\* one, and only when the loop is entered or when the sleep that follows a
\* returned submission ends; a probe starts only as the first step of a new
\* cycle, with no submission of that cycle made; a submission is made only
\* after that cycle's probe, once per cycle.
C12_CyclesDoNotOverlap ==
    [][/\ cycle' # cycle =>
            /\ cycle' = cycle + 1
            /\ pc' = "probe"
            /\ \/ cycle = 0 /\ pc = "params"
               \/ pc = "sleep" /\ calls = 1 /\ submitResult \in BackendOutcomes
       /\ (pc' = "probe" /\ pc # "probe") => (cycle' = cycle + 1 /\ calls' = 0)
       /\ (pc = "probe" /\ pc' # "probe") => (calls = 0 /\ submitResult = "")
       /\ calls' # calls =>
            \/ pc = "report" /\ calls = 0 /\ calls' = 1 /\ cycle' = cycle
            \/ pc = "sleep" /\ calls' = 0 /\ cycle' = cycle + 1]_vars

C12_Witness == cycle = 2 /\ pc = "sleep" /\ calls = 1

\* what report_metrics submits for this raw output alone, without timestamps
OwnSubmission(stdout) ==
    WithoutTime(BuildSeries(ParseLines(stdout, <<>>).data,
                            TimeSeries(identity, 0), 1, 1, <<>>).series)

\* C13: a cycle's submission is, timestamps aside, what its own probe output
\* determines, whatever the cycles before it read; and a cycle that reads
\* the same raw output as the cycle before it submits the same series.
C13_CyclesIndependent ==
    pc = "sleep" =>
        /\ WithoutTime(series) = OwnSubmission(process.stdout)
        /\ (prev.cycle = cycle - 1 /\ prev.cycle >= 1
              /\ prev.stdout = process.stdout)
             => WithoutTime(series) = prev.series

C13_Witness ==
    /\ pc = "sleep"
    /\ cycle = 2
    /\ prev.cycle = 1
    /\ prev.stdout = process.stdout
    /\ Len(process.stdout) = 2
    /\ Len(series) > 0

\* C14: a ConnectionError of the metadata requests ends the process before
\* the loop, with an exit code that is non-zero and is not the code of a
\* failed tool check; and get_instance_params is called only after the
\* tool check has succeeded.
C14_MetadataFailureDistinct ==
    /\ [](FailureKind = "MetadataConnectivity" =>
            /\ cycle = 0
            /\ identity = <<>>
            /\ exitCode # 0
            /\ \A k \in StartupFailureKinds \ {"MetadataConnectivity"} :
                  exitCode # ExitCodeOf(k))
    /\ [][(pc = "params" /\ pc' # "params") =>
            (nChecks = 1 /\ ToolCheckSucceeded)]_vars

C14_Witness == FailureKind = "MetadataConnectivity" /\ exitCode = 2

\* main holds the dict get_metrics returned in this cycle
HoldsSampleSet ==
    /\ LoopEntered
    /\ \/ pc \in {"report", "sleep"}
       \/ pc = "exited" /\ exitedAt = "report"

\* the values of entry e are the columns of its device's last line, the
\* k-th value column under the k-th key in sorted order
ByPosition(e) ==
    \A k \in 1..Len(SortedKeys) :
        SortedKeys[k] \in DOMAIN e.val =>
            /\ k + 2 <= Len(Fields(LastLineOf(e.key)))
            /\ ToText(e.val[SortedKeys[k]]) = Strip(Fields(LastLineOf(e.key))[k + 2])

\* C15: every entry of the SampleSet has a value for every catalog key, the
\* value of that key's column.
C15_EntriesComplete ==
    HoldsSampleSet =>
        \A i \in 1..Len(metrics) :
            /\ DOMAIN metrics[i].val = {SortedKeys[k] : k \in 1..Len(SortedKeys)}
            /\ ByPosition(metrics[i])

\* C16: the identity is segment 1 and segment 3 of the zone response, and a
\* process that ends in identity resolution ends with the exit code of the
\* identity-resolution failure, which is not the code of a failed tool check.
C16_IdentityFailureExit ==
    /\ identity # <<>> =>
          identity[1] = <<"123">> /\ identity[2] = <<"europe-west3-c">>
    /\ (pc = "exited" /\ exitedAt = "params") =>
          exitCode = ConnectionErrorExit /\ exitCode # CheckFailedExit

\* the tool ran and ended in this cycle's probe
ToolRan ==
    /\ LoopEntered
    /\ \/ pc \in {"report", "sleep"}
       \/ pc = "exited" /\ exitedAt \in {"probe", "report"}
                        /\ exc # "FileNotFoundError"

EmptySubmission ==
    /\ pc \in {"report", "sleep"}
    /\ metrics = <<>>
    /\ pc = "sleep" =>
          /\ calls = 1
          /\ series = <<>>
          /\ cycle < MaxCycles => ENABLED MainSleep

\* C17 as stated: when the tool exits non-zero or prints no lines, the
\* SampleSet is empty and the cycle makes one submission of zero series and
\* goes on.
C17_EmptyOnFailureOrNoLines ==
    (ToolRan /\ (process.returncode # 0 \/ process.stdout = <<>>))
        => EmptySubmission

\* C17 as amended: when the tool prints no lines, whatever its exit status,
\* the SampleSet is empty and the cycle makes one submission of zero series
\* and goes on to the sleep.
C17_EmptyOnNoLines ==
    /\ []((ToolRan /\ process.stdout = <<>>) => EmptySubmission)
    /\ [][(pc = "report" /\ process.stdout = <<>>) =>
            (pc' = "sleep" /\ calls' = 1 /\ series' = <<>>)]_vars

C17_Witness ==
    /\ pc = "sleep"
    /\ process.returncode # 0
    /\ process.stdout = <<>>
    /\ calls = 1
    /\ series = <<>>

DistinctKeys == {LineKey(process.stdout[i]) : i \in 1..Len(process.stdout)}

PublishedNames == {ChainItems[c][2] : c \in 1..Len(ChainItems)}

\* C18: the SampleSet has one entry per distinct (name, bus id) of the
\* output, holding the values of the last line of that device; a submission
\* has one series per entry and published metric name, so as many series as
\* distinct identities times (|catalog| + 1).
C18_KeyedByIdentity ==
    /\ (LoopEntered /\ pc \in {"report", "sleep"}) =>
          /\ Len(metrics) = Cardinality(DistinctKeys)
          /\ \A i \in 1..Len(metrics) :
                /\ metrics[i].key \in DistinctKeys
                /\ ByPosition(metrics[i])
    /\ pc = "sleep" =>
          /\ Len(series) = Cardinality(DistinctKeys) * (Len(METRICS) + 1)
          /\ \A i \in 1..Len(metrics) : \A g \in PublishedNames :
                Cardinality(PointsOf(metrics[i], g)) = 1

C18_Witness ==
    /\ pc = "sleep"
    /\ Len(process.stdout) = 2
    /\ process.stdout[1] # process.stdout[2]
    /\ Len(metrics) = 1
    /\ Len(series) = Len(ChainItems)

====
